---- MODULE Spec2Model ----
(***************************************************************************)
(* A model of the flight search web application (src/app.py): the helpers  *)
(* that parse leg texts and build the search windows, the /search handler  *)
(* and its streaming generator (date enumeration, paced queries with       *)
(* retry, leg filtering, de-duplication, combination, capped selection,    *)
(* Pareto frontier, timeline geometry, the SEARCHES cache) and the         *)
(* /flight/<sid>/<idx> handler.                                            *)
(*                                                                         *)
(* Representation.                                                         *)
(*  - An optional Python value is None (the empty tuple) or Some(v).       *)
(*  - A calendar date is [y, m, d]; date arithmetic goes through the       *)
(*    proleptic day number like date.toordinal (the years 2025..2027, none *)
(*    of them a leap year, are covered).                                   *)
(*  - A datetime is [date, hh, mm, tz]; tz is a zone name or NoTz for a    *)
(*    naive datetime.  A zone has a fixed UTC offset in minutes (no        *)
(*    daylight-saving transition lies inside the modelled dates).          *)
(*  - A time text is [kind, h, mi, ap]: kind "ampm" is "h:mm AM|PM", kind  *)
(*    "h24" is a bare "hh:mm", kind "bad" is any other text, kind "empty"  *)
(*    the empty string.  A leg text "<time> on <date>" is [t, d], with     *)
(*    d = [mon, day] (0 where the text has no month abbreviation, or no    *)
(*    day number after it).  A price text is [sym, digits].                *)
(*  - Proportions and hours are exact rationals kept as numerator and      *)
(*    denominator; dest_hrs is kept in tenths of an hour.                  *)
(***************************************************************************)
EXTENDS Integers, Sequences, FiniteSets, TLC

VARIABLES
    pc,              \* position of the /search generator
    form,            \* the submitted form fields of the running search
    win,             \* the four resolved window bounds (search, lines 466-490)
    out_dates,       \* generate: out_dates
    ret_dates,       \* generate: ret_dates
    di,              \* index of the date being queried in the running loop
    attempt,         \* search_retry: i, the attempt in progress
    outbound,        \* generate: outbound
    returns,         \* generate: returns
    pairs,           \* generate: pairs
    kept,            \* generate: kept
    pareto_indices,  \* generate: pareto_indices
    timeline,        \* build_html_timeline: zone widths and rows
    SEARCHES,        \* the process-wide cache: sid -> stored search
    sid,             \* generate: sid of the running search, None before Store
    log,             \* external effects in order: queries and sleeps
    outcome,         \* how the running search ended
    detail,          \* the last /flight/<sid>/<idx> response
    text,            \* extract_td: s, a departure or arrival text on its own
    td,              \* extract_td: what it returned for text
    report           \* generate: the leg counts the no-results page states

vars == << pc, form, win, out_dates, ret_dates, di, attempt, outbound, returns,
           pairs, kept, pareto_indices, timeline, SEARCHES, sid, log, outcome,
           detail, text, td, report >>

-----------------------------------------------------------------------------
(* Optional values *)

None == << >>

Some(v) == << v >>

IsNone(o) == o = None

Val(o) == o[1]

-----------------------------------------------------------------------------
(* Sequence helpers *)

Range(s) == { s[i] : i \in DOMAIN s }

RECURSIVE SeqsUpTo(_, _)
SeqsUpTo(S, n) ==
    IF n = 0 THEN { << >> }
    ELSE LET shorter == SeqsUpTo(S, n - 1)
         IN  shorter \cup { Append(s, x) : s \in { t \in shorter : Len(t) = n - 1 }, x \in S }

\* Python's order on tuples of integers of one length: lexicographic
RECURSIVE KeyLess(_, _)
KeyLess(a, b) ==
    IF a = << >> THEN FALSE
    ELSE IF a[1] # b[1] THEN a[1] < b[1]
    ELSE KeyLess(Tail(a), Tail(b))

\* the place sorted()/list.sort() give the i-th element: they are stable, so
\* it follows every element of a smaller key and every earlier element of an
\* equal key
StableRank(keys, i) ==
    Cardinality({ j \in DOMAIN keys : \/ KeyLess(keys[j], keys[i])
                                      \/ (keys[j] = keys[i] /\ j < i) }) + 1

\* the indices 1..n in the order sorted(range(n), key=lambda i: keys[i]) gives
SortIdx(keys, n) ==
    LET rank == [i \in 1..n |-> StableRank(keys, i)]
    IN  [k \in 1..n |-> CHOOSE i \in 1..n : rank[i] = k]

\* sorted(s, key=...), keys[i] being the key of s[i]
SortedBy(s, keys) ==
    LET perm == SortIdx(keys, Len(s))
    IN  [k \in 1..Len(s) |-> s[perm[k]]]

-----------------------------------------------------------------------------
(* Calendar: datetime.date, timedelta(days=n) *)

DaysInMonth(m) == IF m = 2 THEN 28 ELSE IF m \in {4, 6, 9, 11} THEN 30 ELSE 31

RECURSIVE DaysBeforeMonth(_)
DaysBeforeMonth(m) == IF m = 1 THEN 0 ELSE DaysBeforeMonth(m - 1) + DaysInMonth(m - 1)

\* date.toordinal(), counted from 2025-12-31 (2026-01-01 is day 1)
ToOrdinal(dt) == (dt.y - 2026) * 365 + DaysBeforeMonth(dt.m) + dt.d

RECURSIVE MonthOf(_, _)
MonthOf(n, m) == IF n <= DaysBeforeMonth(m) + DaysInMonth(m) THEN m ELSE MonthOf(n, m + 1)

\* date.fromordinal()
FromOrdinal(n) ==
    LET y   == 2026 + ((n - 1) \div 365)
        doy == ((n - 1) % 365) + 1
        m   == MonthOf(doy, 1)
    IN  [y |-> y, m |-> m, d |-> doy - DaysBeforeMonth(m)]

\* date + timedelta(days=k)
AddDays(dt, k) == FromOrdinal(ToOrdinal(dt) + k)

\* date <= date
DateLeq(a, b) == ToOrdinal(a) <= ToOrdinal(b)

-----------------------------------------------------------------------------
(* Datetimes and timezones *)

NoTz == "None"

\* ZoneInfo(ap['tz']).utcoffset(), in minutes
UtcOffset(tz) ==
    CASE tz = "America/Los_Angeles" -> -480
      [] tz = "America/New_York"    -> -300
      [] OTHER                      -> 0

\* datetime(y, m, d, hh, mm, tzinfo=tz)
DateTime(dt, hh, mm, tz) == [date |-> dt, hh |-> hh, mm |-> mm, tz |-> tz]

\* minutes of the wall clock since 2025-12-31 00:00
WallMinutes(x) == ToOrdinal(x.date) * 1440 + x.hh * 60 + x.mm

\* minutes of the absolute instant (UTC) since 2025-12-31 00:00
UtcMinutes(x) == WallMinutes(x) - UtcOffset(x.tz)

\* a - b in minutes: datetimes of one tzinfo subtract their wall clocks, those
\* of different tzinfo their UTC instants
DtDiff(a, b) ==
    IF a.tz = b.tz THEN WallMinutes(a) - WallMinutes(b)
    ELSE UtcMinutes(a) - UtcMinutes(b)

\* a < b
DtLess(a, b) == DtDiff(a, b) < 0

-----------------------------------------------------------------------------
(* Helpers (lines 42-160) *)

\* parse_hhmm(s): (h, mi), both None when s is empty or has neither shape
parse_hhmm(s) ==
    IF s.kind = "ampm"
    THEN [h  |-> Some(IF s.ap = "PM" /\ s.h # 12 THEN s.h + 12
                      ELSE IF s.ap = "AM" /\ s.h = 12 THEN 0
                      ELSE s.h),
          mi |-> Some(s.mi)]
    ELSE IF s.kind = "h24"
    THEN [h |-> Some(s.h), mi |-> Some(s.mi)]
    ELSE [h |-> None, mi |-> None]

\* extract_td(s): (ts, ds, h, mi); the pattern wants a time with a meridiem,
\* then " on ", then the date description
extract_td(s) ==
    IF s.t.kind = "ampm" /\ s.on
    THEN LET hm == parse_hhmm(s.t)
         IN  [ts |-> Some(s.t), ds |-> Some(s.d), h |-> hm.h, mi |-> hm.mi]
    ELSE [ts |-> None, ds |-> None, h |-> None, mi |-> None]

\* price_int(s)
price_int(s) == IF IsNone(s.digits) THEN 999999 ELSE Val(s.digits)

\* date_day(ds): the number after the month abbreviation
date_day(ds) == IF ds.mon # 0 /\ ds.day # 0 THEN Some(ds.day) ELSE None

\* date_month(ds)
date_month(ds) == IF ds.mon # 0 THEN Some(ds.mon) ELSE None

\* datetime(year, mon, day, h, mi) raises ValueError outside these ranges
ValidDateTime(mon, day, h, mi) ==
    /\ day \in 1..DaysInMonth(mon)
    /\ h \in 0..23
    /\ mi \in 0..59

\* whether to_dt(date_str, h, mi) raises
to_dt_raises(date_str, h, mi) ==
    /\ ~IsNone(date_month(date_str))
    /\ ~IsNone(date_day(date_str))
    /\ ~IsNone(h)
    /\ ~ValidDateTime(Val(date_month(date_str)), Val(date_day(date_str)), Val(h), Val(mi))

\* to_dt(date_str, h, mi, year=2026, tz=tz), where it does not raise
to_dt(date_str, h, mi, tz) ==
    LET mon == date_month(date_str)
        day == date_day(date_str)
    IN  IF IsNone(mon) \/ IsNone(day) \/ IsNone(h) THEN None
        ELSE Some(DateTime([y |-> 2026, m |-> Val(mon), d |-> Val(day)], Val(h), Val(mi), tz))

\* the key dedup gives a record: f.get('arr_str', f.get('arr_time', ''))
\* stands in for the arrival
DedupKey(f) ==
    << f.airline, f.dep_time,
       IF "arr_str" \in DOMAIN f THEN Some(f.arr_str)
       ELSE IF "arr_time" \in DOMAIN f THEN Some(f.arr_time)
       ELSE None,
       f.price >>

\* dedup(flights)
RECURSIVE dedup_from(_, _, _)
dedup_from(flights, seen, out) ==
    IF flights = << >> THEN out
    ELSE LET f   == Head(flights)
             key == DedupKey(f)
         IN  IF key \notin seen
             THEN dedup_from(Tail(flights), seen \cup {key}, Append(out, f))
             ELSE dedup_from(Tail(flights), seen, out)

dedup(flights) == dedup_from(flights, {}, << >>)

\* make_dt(date_str, time_str, tz): the form's date is an ISO date (here the
\* date it denotes), its time a time text, both possibly empty
make_dt(date_str, time_str, tz) ==
    IF IsNone(date_str) THEN None
    ELSE LET hm == IF time_str.kind = "empty" THEN [h |-> None, mi |-> None]
                   ELSE parse_hhmm(time_str)
         IN  Some(DateTime(Val(date_str),
                           IF IsNone(hm.h) THEN 0 ELSE Val(hm.h),
                           IF IsNone(hm.mi) THEN 0 ELSE Val(hm.mi),
                           tz))

\* the while loop of compute_search_dates: d0, d0 + 1 day, ... while d <= d1
RECURSIVE DatesFrom(_, _)
DatesFrom(d, d1) ==
    IF DateLeq(d, d1) THEN << d >> \o DatesFrom(AddDays(d, 1), d1) ELSE << >>

\* compute_search_dates with the loop written while d < d1
compute_search_dates_exclusive(after_dt, before_dt) ==
    IF IsNone(after_dt) \/ IsNone(before_dt) THEN << >>
    ELSE DatesFrom(Val(after_dt).date, AddDays(Val(before_dt).date, -1))

\* compute_search_dates(after_dt, before_dt)
compute_search_dates(after_dt, before_dt) ==
    IF IsNone(after_dt) \/ IsNone(before_dt) THEN << >>
    ELSE DatesFrom(Val(after_dt).date, Val(before_dt).date)

-----------------------------------------------------------------------------
(* search(): the window bounds (lines 461-490) *)

\* one direction's pair of bounds: make_dt of both, then the symmetric
\* defaults; after_tz anchors the departure bound, before_tz the arrival bound
ResolveWindow(after_date, after_time, before_date, before_time, after_tz, before_tz) ==
    LET a == make_dt(after_date, after_time, after_tz)
        b == make_dt(before_date, before_time, before_tz)
    IN  IF ~IsNone(a) /\ IsNone(b)
        THEN [after  |-> a,
              before |-> Some(DateTime(AddDays(Val(a).date, 1), 23, 59, before_tz))]
        ELSE IF ~IsNone(b) /\ IsNone(a)
        THEN [after  |-> Some(DateTime(AddDays(Val(b).date, -1), 0, 0, after_tz)),
              before |-> b]
        ELSE IF ~IsNone(b) /\ before_time.kind = "empty"
        THEN [after |-> a, before |-> Some([Val(b) EXCEPT !.hh = 23, !.mm = 59])]
        ELSE [after |-> a, before |-> b]

\* out_after_dt, out_before_dt, ret_after_dt, ret_before_dt of a form
Windows(f) ==
    [out |-> ResolveWindow(f.out_after_date, f.out_after_time,
                           f.out_before_date, f.out_before_time,
                           f.origin_tz, f.dest_tz),
     ret |-> ResolveWindow(f.ret_after_date, f.ret_after_time,
                           f.ret_before_date, f.ret_before_time,
                           f.dest_tz, f.origin_tz)]

-----------------------------------------------------------------------------
(* generate(): one flight of a query result (lines 529-547 and 568-586) *)

\* ParseLeg with the two window tests written <= and >=: a leg on a bound
\* is skipped
ParseLegExclusive(f, w, dep_tz, arr_tz, outward) ==
    LET dep == extract_td(f.departure)
        arr == extract_td(f.arrival)
        dep_dt == IF ~IsNone(dep.ds) THEN to_dt(Val(dep.ds), dep.h, dep.mi, dep_tz) ELSE None
        arr_dt == IF ~IsNone(arr.ds) THEN to_dt(Val(arr.ds), arr.h, arr.mi, arr_tz) ELSE None
        base == [airline |-> f.name, dep_time |-> dep.ts, dep_date |-> dep.ds,
                 dep_h |-> dep.h, dep_m |-> dep.mi, dep_dt |-> dep_dt,
                 arr_date |-> arr.ds, arr_h |-> arr.h, arr_m |-> arr.mi,
                 arr_dt |-> arr_dt,
                 duration |-> f.duration, stops |-> f.stops,
                 price |-> f.price, price_int |-> price_int(f.price)]
    IN  IF IsNone(dep.h) THEN [kind |-> "skip"]
        ELSE IF ~IsNone(dep.ds) /\ to_dt_raises(Val(dep.ds), dep.h, dep.mi)
        THEN [kind |-> "raise"]
        ELSE IF ~IsNone(w.after) /\ ~IsNone(dep_dt) /\ ~DtLess(Val(w.after), Val(dep_dt))
        THEN [kind |-> "skip"]
        ELSE IF IsNone(arr.h) THEN [kind |-> "skip"]
        ELSE IF ~IsNone(arr.ds) /\ to_dt_raises(Val(arr.ds), arr.h, arr.mi)
        THEN [kind |-> "raise"]
        ELSE IF ~IsNone(w.before) /\ ~IsNone(arr_dt) /\ ~DtLess(Val(arr_dt), Val(w.before))
        THEN [kind |-> "skip"]
        ELSE [kind |-> "leg",
              leg  |-> IF outward
                       THEN base @@ [arr_str |-> f.arrival]
                       ELSE base @@ [arr_time |-> arr.ts]]

\* what the loop body does with flight f: skips it, raises (to_dt on an
\* impossible date or time) or appends a leg record.  dep_tz and arr_tz are
\* the zones of the departure and the arrival airport of the direction, w its
\* window, outward whether the direction is the outbound one.
ParseLeg(f, w, dep_tz, arr_tz, outward) ==
    LET dep == extract_td(f.departure)
        arr == extract_td(f.arrival)
        dep_dt == IF ~IsNone(dep.ds) THEN to_dt(Val(dep.ds), dep.h, dep.mi, dep_tz) ELSE None
        arr_dt == IF ~IsNone(arr.ds) THEN to_dt(Val(arr.ds), arr.h, arr.mi, arr_tz) ELSE None
        base == [airline |-> f.name, dep_time |-> dep.ts, dep_date |-> dep.ds,
                 dep_h |-> dep.h, dep_m |-> dep.mi, dep_dt |-> dep_dt,
                 arr_date |-> arr.ds, arr_h |-> arr.h, arr_m |-> arr.mi,
                 arr_dt |-> arr_dt,
                 duration |-> f.duration, stops |-> f.stops,
                 price |-> f.price, price_int |-> price_int(f.price)]
    IN  IF IsNone(dep.h) THEN [kind |-> "skip"]
        ELSE IF ~IsNone(dep.ds) /\ to_dt_raises(Val(dep.ds), dep.h, dep.mi)
        THEN [kind |-> "raise"]
        ELSE IF ~IsNone(w.after) /\ ~IsNone(dep_dt) /\ DtLess(Val(dep_dt), Val(w.after))
        THEN [kind |-> "skip"]
        ELSE IF IsNone(arr.h) THEN [kind |-> "skip"]
        ELSE IF ~IsNone(arr.ds) /\ to_dt_raises(Val(arr.ds), arr.h, arr.mi)
        THEN [kind |-> "raise"]
        ELSE IF ~IsNone(w.before) /\ ~IsNone(arr_dt) /\ DtLess(Val(w.before), Val(arr_dt))
        THEN [kind |-> "skip"]
        ELSE [kind |-> "leg",
              leg  |-> IF outward
                       THEN base @@ [arr_str |-> f.arrival]
                       ELSE base @@ [arr_time |-> arr.ts]]

\* the for loop over r.flights: the legs appended to acc, or a raise
RECURSIVE ParseFlights(_, _, _, _, _, _)
ParseFlights(flights, acc, w, dep_tz, arr_tz, outward) ==
    IF flights = << >> THEN [raised |-> FALSE, legs |-> acc]
    ELSE LET r == ParseLeg(Head(flights), w, dep_tz, arr_tz, outward)
         IN  IF r.kind = "raise" THEN [raised |-> TRUE, legs |-> acc]
             ELSE ParseFlights(Tail(flights),
                               IF r.kind = "leg" THEN Append(acc, r.leg) ELSE acc,
                               w, dep_tz, arr_tz, outward)

-----------------------------------------------------------------------------
(* generate(): combine, select, Pareto frontier (lines 593-664) *)

\* the ties of round(x, 1) that come out upward, for x = (6k + 3)/60 hours
\* and k < 40: the double nearest to x lies above the decimal tie, or is the
\* tie itself with an odd tenth below it
TieRoundsUp == {0, 4, 5, 6, 7, 10, 13, 15, 17, 18, 23, 24, 27, 28, 29, 33, 34, 37, 38, 39}

\* the stay in tenths of an hour, cut off instead of rounded
RoundTenthsFloor(minutes) == minutes \div 6

\* round(minutes * 60 / 3600, 1), in tenths of an hour, for minutes > 0.
\* Off a tie the nearest tenth; on a tie (minutes = 6k + 3) what the double
\* gives, tabulated for k < 40 (no longer tie arises from the modelled legs;
\* past the table the rule of an exact tie, half to even, stands in).
RoundTenths(minutes) ==
    LET k == minutes \div 6
    IN  IF minutes % 6 < 3 THEN k
        ELSE IF minutes % 6 > 3 THEN k + 1
        ELSE IF k < 40 THEN (IF k \in TieRoundsUp THEN k + 1 ELSE k)
        ELSE IF k % 2 = 0 THEN k ELSE k + 1

\* (r['dep_dt'] - o['arr_dt']).total_seconds() / 3600 <= 0, on the minutes
DestMinutes(o, r) == DtDiff(Val(r.dep_dt), Val(o.arr_dt))

\* the dict appended for outbound leg o and return leg r; id is the identity
\* of the dict object (id(p)): its rank of creation
MakePair(o, r, n) ==
    [total    |-> o.price_int + r.price_int,
     dest_hrs |-> RoundTenths(DestMinutes(o, r)),
     out      |-> o,
     ret      |-> r,
     id       |-> n]

\* the order the two loops visit the index pairs in: for o in outbound, for
\* r in returns
LoopOrder(n, m) == [k \in 1..(n * m) |-> << ((k - 1) \div m) + 1, ((k - 1) % m) + 1 >>]

\* Combinable with the test of line 599 written dest_hrs < 0
CombinableAllowZero(outs, rets) ==
    SelectSeq(LoopOrder(Len(outs), Len(rets)),
              LAMBDA ij : /\ ~IsNone(outs[ij[1]].arr_dt)
                          /\ ~IsNone(rets[ij[2]].dep_dt)
                          /\ ~(DestMinutes(outs[ij[1]], rets[ij[2]]) < 0))

\* the index pairs neither loop skips (lines 595, 597, 599)
Combinable(outs, rets) ==
    SelectSeq(LoopOrder(Len(outs), Len(rets)),
              LAMBDA ij : /\ ~IsNone(outs[ij[1]].arr_dt)
                          /\ ~IsNone(rets[ij[2]].dep_dt)
                          /\ ~(DestMinutes(outs[ij[1]], rets[ij[2]]) <= 0))

\* pairs before the sort: one dict per pair not skipped, in loop order
CombineLoops(outs, rets) ==
    LET c == Combinable(outs, rets)
    IN  [k \in 1..Len(c) |-> MakePair(outs[c[k][1]], rets[c[k][2]], k)]

\* SortByTotal with equal totals put in the reverse of their order in ps
SortByTotalReversed(ps) == SortedBy(ps, [k \in 1..Len(ps) |-> << ps[k].total, -k >>])

\* pairs.sort(key=lambda x: x['total'])
SortByTotal(ps) == SortedBy(ps, [k \in 1..Len(ps) |-> << ps[k].total >>])

\* pairs after line 605
Combine(outs, rets) == SortByTotal(CombineLoops(outs, rets))

BothNonstop(p) == p.out.stops = 0 /\ p.ret.stops = 0

WithStops(p) == ~BothNonstop(p)

\* the cap of with_stops[:50]
DisplayCap == 50

\* for p in nonstop: if id(p) not in ns_ids: kept.append(p)
AppendMissing(acc, ns_ids, nonstop) ==
    acc \o SelectSeq(nonstop, LAMBDA p : p.id \notin ns_ids)

\* Select with the cap applied to the whole list: pairs[:50]
SelectCapAll(ps) ==
    SubSeq(ps, 1, IF Len(ps) < DisplayCap THEN Len(ps) ELSE DisplayCap)

\* Select without the sort of line 614
SelectUnsorted(ps) ==
    LET nonstop    == SelectSeq(ps, BothNonstop)
        with_stops == SelectSeq(ps, WithStops)
        capped     == SubSeq(with_stops, 1, IF Len(with_stops) < DisplayCap
                                            THEN Len(with_stops) ELSE DisplayCap)
        ns_ids     == { capped[k].id : k \in DOMAIN capped }
    IN  AppendMissing(capped, ns_ids, nonstop)

\* kept after line 614
Select(ps) ==
    LET nonstop    == SelectSeq(ps, BothNonstop)
        with_stops == SelectSeq(ps, WithStops)
        capped     == SubSeq(with_stops, 1, IF Len(with_stops) < DisplayCap
                                            THEN Len(with_stops) ELSE DisplayCap)
        ns_ids     == { capped[k].id : k \in DOMAIN capped }
    IN  SortByTotal(AppendMissing(capped, ns_ids, nonstop))

\* ParetoScan with the test of line 656 written >=
RECURSIVE ParetoScanGeq(_, _, _, _, _)
ParetoScanGeq(ks, indexed, n, max_hrs, acc) ==
    IF n > Len(indexed) THEN acc
    ELSE LET i == indexed[n]
         IN  IF ks[i].dest_hrs >= max_hrs
             THEN ParetoScanGeq(ks, indexed, n + 1, ks[i].dest_hrs, Append(acc, i))
             ELSE ParetoScanGeq(ks, indexed, n + 1, max_hrs, acc)

\* the scan of lines 654-660 over the indices in `indexed`, from the n-th on;
\* acc holds the retained indices, max_hrs the running maximum
RECURSIVE ParetoScan(_, _, _, _, _)
ParetoScan(ks, indexed, n, max_hrs, acc) ==
    IF n > Len(indexed) THEN acc
    ELSE LET i == indexed[n]
         IN  IF ks[i].dest_hrs > max_hrs
             THEN ParetoScan(ks, indexed, n + 1, ks[i].dest_hrs, Append(acc, i))
             ELSE ParetoScan(ks, indexed, n + 1, max_hrs, acc)

\* Pareto with the sort of line 652 on the price alone
ParetoNoTieBreak(ks) ==
    LET indexed == SortIdx([k \in 1..Len(ks) |-> << ks[k].total >>], Len(ks))
        scanned == ParetoScan(ks, indexed, 1, -10, << >>)
    IN  SortedBy(scanned, [k \in 1..Len(scanned) |->
                    << ks[scanned[k]].dest_hrs, ks[scanned[k]].total, scanned[k] >>])

\* pareto_indices after line 664 (indices into kept, counted from 1); max_hrs
\* starts at -1 hour
Pareto(ks) ==
    LET indexed == SortIdx([k \in 1..Len(ks) |-> << ks[k].total, -ks[k].dest_hrs >>], Len(ks))
        scanned == ParetoScan(ks, indexed, 1, -10, << >>)
        pf      == SortedBy(scanned, [k \in 1..Len(scanned) |->
                                << ks[scanned[k]].dest_hrs, ks[scanned[k]].total, scanned[k] >>])
    IN  pf

-----------------------------------------------------------------------------
(* build_html_timeline (lines 174-298) *)

\* to_utc(dt) as seconds since 2025-12-31 00:00 UTC; a naive datetime is
\* taken as UTC
to_utc(x) == UtcMinutes(x) * 60

SetMin(S) == CHOOSE x \in S : \A y \in S : x <= y

SetMax(S) == CHOOSE x \in S : \A y \in S : y <= x

\* x / span * 100, kept exact: the percentage is 100 * num / den
Percent(x, span) == [num |-> x, den |-> span]

\* the entries: the Pareto rows whose four datetimes are all set
TimelineEntries(indices, ks) ==
    SelectSeq([k \in 1..Len(indices) |->
                  [idx |-> indices[k],
                   od  |-> ks[indices[k]].out.dep_dt, oa |-> ks[indices[k]].out.arr_dt,
                   rd  |-> ks[indices[k]].ret.dep_dt, ra |-> ks[indices[k]].ret.arr_dt]],
              LAMBDA e : ~IsNone(e.od) /\ ~IsNone(e.oa) /\ ~IsNone(e.rd) /\ ~IsNone(e.ra))

\* (t1 - t0).total_seconds() or 1
SpanOr1(t0, t1) == IF t1 - t0 = 0 THEN 1 ELSE t1 - t0

\* build_html_timeline with the return pre-gap measured from the outbound
\* zone's start
build_html_timeline_r_pre(indices, ks) ==
    LET entries == TimelineEntries(indices, ks)
        E       == DOMAIN entries
        out_t0  == SetMin({ to_utc(Val(entries[k].od)) : k \in E })
        out_t1  == SetMax({ to_utc(Val(entries[k].oa)) : k \in E })
        ret_t0  == SetMin({ to_utc(Val(entries[k].rd)) : k \in E })
        ret_t1  == SetMax({ to_utc(Val(entries[k].ra)) : k \in E })
        out_span == SpanOr1(out_t0, out_t1)
        ret_span == SpanOr1(ret_t0, ret_t1)
        total_span == out_span + ret_span
        Row(e) ==
            LET od == to_utc(Val(e.od))
                oa == to_utc(Val(e.oa))
                rd == to_utc(Val(e.rd))
                ra == to_utc(Val(e.ra))
            IN  [idx    |-> e.idx,
                 o_pre  |-> Percent(od - out_t0, out_span),
                 o_bar  |-> Percent(oa - od, out_span),
                 o_post |-> Percent(out_t1 - oa, out_span),
                 r_pre  |-> Percent(rd - out_t0, ret_span),
                 r_bar  |-> Percent(ra - rd, ret_span),
                 r_post |-> Percent(ret_t1 - ra, ret_span)]
    IN  IF entries = << >> THEN None
        ELSE Some([out_t0   |-> out_t0, out_t1 |-> out_t1,
                   ret_t0   |-> ret_t0, ret_t1 |-> ret_t1,
                   out_span |-> out_span, ret_span |-> ret_span,
                   out_flex |-> Percent(out_span, total_span),
                   ret_flex |-> Percent(ret_span, total_span),
                   rows     |-> [k \in E |-> Row(entries[k])]])

\* the geometry build_html_timeline computes: None for the empty string it
\* returns when no entry is left
build_html_timeline(indices, ks) ==
    LET entries == TimelineEntries(indices, ks)
        E       == DOMAIN entries
        out_t0  == SetMin({ to_utc(Val(entries[k].od)) : k \in E })
        out_t1  == SetMax({ to_utc(Val(entries[k].oa)) : k \in E })
        ret_t0  == SetMin({ to_utc(Val(entries[k].rd)) : k \in E })
        ret_t1  == SetMax({ to_utc(Val(entries[k].ra)) : k \in E })
        out_span == SpanOr1(out_t0, out_t1)
        ret_span == SpanOr1(ret_t0, ret_t1)
        total_span == out_span + ret_span
        Row(e) ==
            LET od == to_utc(Val(e.od))
                oa == to_utc(Val(e.oa))
                rd == to_utc(Val(e.rd))
                ra == to_utc(Val(e.ra))
            IN  [idx    |-> e.idx,
                 o_pre  |-> Percent(od - out_t0, out_span),
                 o_bar  |-> Percent(oa - od, out_span),
                 o_post |-> Percent(out_t1 - oa, out_span),
                 r_pre  |-> Percent(rd - ret_t0, ret_span),
                 r_bar  |-> Percent(ra - rd, ret_span),
                 r_post |-> Percent(ret_t1 - ra, ret_span)]
    IN  IF entries = << >> THEN None
        ELSE Some([out_t0   |-> out_t0, out_t1 |-> out_t1,
                   ret_t0   |-> ret_t0, ret_t1 |-> ret_t1,
                   out_span |-> out_span, ret_span |-> ret_span,
                   out_flex |-> Percent(out_span, total_span),
                   ret_flex |-> Percent(ret_span, total_span),
                   rows     |-> [k \in E |-> Row(entries[k])]])

\* out_span / total_span (line 232) raises ZeroDivisionError: some entry is
\* left and the two spans, neither of them zero after "or 1", cancel
ZeroDivisionError(indices, ks) ==
    LET entries == TimelineEntries(indices, ks)
        E       == DOMAIN entries
        out_t0  == SetMin({ to_utc(Val(entries[k].od)) : k \in E })
        out_t1  == SetMax({ to_utc(Val(entries[k].oa)) : k \in E })
        ret_t0  == SetMin({ to_utc(Val(entries[k].rd)) : k \in E })
        ret_t1  == SetMax({ to_utc(Val(entries[k].ra)) : k \in E })
    IN  /\ entries # << >>
        /\ SpanOr1(out_t0, out_t1) + SpanOr1(ret_t0, ret_t1) = 0

-----------------------------------------------------------------------------
(* The inputs: form fields, the answers of the flight source, the cache *)

\* flights of one answer of get_flights (a bound of the model)
MaxFlights == 1

\* raw flights per direction of an already-fetched search (a bound of the model)
MaxLegs == 2

\* sizes of the long outbound and return lists that put more itineraries
\* with stops on the table than the cap shows (bounds of the model)
BulkOut == 8

BulkRet == 7

LA == "America/Los_Angeles"

NY == "America/New_York"

D(m, d) == [y |-> 2026, m |-> m, d |-> d]

EmptyText == [kind |-> "empty", h |-> 0, mi |-> 0, ap |-> ""]

T24(h, mi) == [kind |-> "h24", h |-> h, mi |-> mi, ap |-> ""]

T12(h, mi, ap) == [kind |-> "ampm", h |-> h, mi |-> mi, ap |-> ap]

BadText == [kind |-> "bad", h |-> 0, mi |-> 0, ap |-> ""]

\* "<time> on <weekday>, <Mon> <day>"
On(t, mon, day) == [t |-> t, on |-> TRUE, d |-> [mon |-> mon, day |-> day]]

\* a text with no " on <date>" part
Bare(t) == [t |-> t, on |-> FALSE, d |-> [mon |-> 0, day |-> 0]]

Price(n) == [sym |-> "$", digits |-> Some(n)]

NoPrice == [sym |-> "", digits |-> None]

Flight(name, departure, arrival, stops, price) ==
    [name |-> name, departure |-> departure, arrival |-> arrival,
     duration |-> "", stops |-> stops, price |-> price]

\* one direction's four fields of the form
Fields(ad, at, bd, bt) ==
    [after_date |-> ad, after_time |-> at, before_date |-> bd, before_time |-> bt]

\* the outbound fields tried: none, only after (with and without a time),
\* only before, both on consecutive days, both on one day, before earlier
\* than after
OutFields ==
    { Fields(None, EmptyText, None, EmptyText),
      Fields(Some(D(2, 28)), EmptyText, None, EmptyText),
      Fields(Some(D(2, 28)), T24(9, 0), None, EmptyText),
      Fields(None, EmptyText, Some(D(3, 1)), EmptyText),
      Fields(Some(D(2, 28)), EmptyText, Some(D(3, 1)), T24(20, 0)),
      Fields(Some(D(2, 28)), EmptyText, Some(D(2, 28)), EmptyText),
      Fields(Some(D(3, 1)), EmptyText, Some(D(2, 28)), EmptyText) }

RetFields ==
    { Fields(None, EmptyText, None, EmptyText),
      Fields(Some(D(3, 1)), EmptyText, None, EmptyText),
      Fields(None, EmptyText, Some(D(3, 2)), T24(22, 0)),
      Fields(Some(D(3, 1)), T24(6, 0), Some(D(3, 1)), EmptyText),
      Fields(Some(D(3, 2)), EmptyText, Some(D(3, 1)), EmptyText) }

MakeForm(o, r, origin_tz, dest_tz) ==
    [out_after_date |-> o.after_date, out_after_time |-> o.after_time,
     out_before_date |-> o.before_date, out_before_time |-> o.before_time,
     ret_after_date |-> r.after_date, ret_after_time |-> r.after_time,
     ret_before_date |-> r.before_date, ret_before_time |-> r.before_time,
     origin_tz |-> origin_tz, dest_tz |-> dest_tz]

\* a direction searched on the single day it names
OneDayOut == Fields(Some(D(2, 28)), EmptyText, Some(D(2, 28)), EmptyText)

OneDayRet == Fields(Some(D(3, 1)), T24(6, 0), Some(D(3, 1)), EmptyText)

\* the forms submitted: every outbound choice with a one-day return, every
\* return choice with a one-day outbound, and one with a single bound in
\* either direction
Forms ==
    { MakeForm(o, OneDayRet, LA, NY) : o \in OutFields }
    \cup { MakeForm(OneDayOut, r, LA, NY) : r \in RetFields }
    \cup { MakeForm(Fields(Some(D(2, 28)), EmptyText, None, EmptyText),
                    Fields(None, EmptyText, Some(D(3, 2)), T24(22, 0)), LA, NY) }

\* the flights the source lists for a date: outbound a nonstop and a
\* one-stop flight, return a nonstop flight and one whose arrival text has no
\* date part
Listed(dir, date) ==
    IF dir = "out"
    THEN << Flight("AA", On(T12(8, 0, "AM"), date.m, date.d),
                         On(T12(4, 30, "PM"), date.m, date.d), 0, Price(200)),
            Flight("UA", On(T12(10, 0, "AM"), date.m, date.d),
                         On(T12(9, 0, "PM"), date.m, date.d), 1, Price(150)),
            Flight("DL", On(T12(6, 0, "AM"), date.m, date.d),
                         On(T12(2, 30, "PM"), date.m, date.d), 0, Price(260)) >>
    ELSE << Flight("AA", On(T12(9, 0, "AM"), date.m, date.d),
                         On(T12(12, 30, "PM"), date.m, date.d), 0, Price(300)),
            Flight("B6", On(T12(5, 0, "PM"), date.m, date.d),
                         Bare(T12(8, 30, "PM")), 1, Price(120)),
            Flight("DL", On(T12(7, 0, "AM"), date.m, date.d),
                         On(T12(10, 30, "AM"), date.m, date.d), 0, Price(310)) >>

\* the answers get_flights may give for a date: no flight, or the first
\* MaxFlights listed ones
Answers(dir, date) == { << >>, SubSeq(Listed(dir, date), 1, MaxFlights) }

-----------------------------------------------------------------------------
(* The handlers *)

\* retries=4 of search_retry
Retries == 4

\* a call of get_flights and how it ended
Query(dir, date, result) == [op |-> "query", dir |-> dir, date |-> date, result |-> result]

\* a call that returned, with len(r.flights) as the progress line states it
Returned(dir, date, n) == Query(dir, date, "returned") @@ [found |-> n]

Sleep(secs) == [op |-> "sleep", secs |-> secs]

\* the identifiers uuid4().hex[:8] may give the running search: eight hex
\* digits, one an earlier search was stored under or a new one; the code
\* does not look the identifier up before it stores
SidValues == {"s0", "s1"}

\* the dates, zones and window of a direction of the running search
DatesOf(dir) == IF dir = "out" THEN out_dates ELSE ret_dates

DepTz(dir) == IF dir = "out" THEN form.origin_tz ELSE form.dest_tz

ArrTz(dir) == IF dir = "out" THEN form.dest_tz ELSE form.origin_tz

WindowOf(dir) == IF dir = "out" THEN win.out ELSE win.ret

TryPc(dir) == IF dir = "out" THEN "out_try" ELSE "ret_try"

PacePc(dir) == IF dir = "out" THEN "out_pace" ELSE "ret_pace"

DonePc(dir) == IF dir = "out" THEN "out_done" ELSE "ret_done"

\* the except clause of generate (lines 750-752) and the end of the stream
Raise(kind) ==
    /\ pc' = "done"
    /\ outcome' = kind

\* search(): read the form, resolve the windows, hand the generator to the
\* response (lines 445-494, 760)
Submit(f) ==
    /\ pc = "idle"
    /\ form' = f
    /\ win' = Windows(f)
    /\ pc' = "out_dates"
    /\ UNCHANGED << out_dates, ret_dates, di, attempt, outbound, returns, pairs, kept,
                    pareto_indices, timeline, SEARCHES, sid, log, outcome, detail,
                    text, td, report >>

\* generate, lines 516-520: the outbound dates, or the ValueError
OutDates ==
    /\ pc = "out_dates"
    /\ out_dates' = compute_search_dates(win.out.after, win.out.before)
    /\ IF out_dates' = << >>
       THEN /\ Raise("error_no_outbound_dates")
            /\ UNCHANGED << di, attempt, outbound >>
       ELSE /\ pc' = "out_try"
            /\ di' = 1
            /\ attempt' = 0
            /\ outbound' = << >>
            /\ UNCHANGED outcome
    /\ UNCHANGED << form, win, ret_dates, returns, pairs, kept, pareto_indices,
                    timeline, SEARCHES, sid, log, detail,
                    text, td, report >>

\* Pace without the sleep
PaceNoSleep(dir) ==
    /\ pc = PacePc(dir)
    /\ di' = di + 1
    /\ attempt' = 0
    /\ pc' = TryPc(dir)
    /\ UNCHANGED << form, win, out_dates, ret_dates, outbound, returns, pairs, kept,
                    pareto_indices, timeline, SEARCHES, sid, log, outcome, detail,
                    text, td, report >>

\* the top of a later iteration of a date loop: time.sleep(1) (lines 522-524
\* and 561-563)
Pace(dir) ==
    /\ pc = PacePc(dir)
    /\ log' = Append(log, Sleep(1))
    /\ di' = di + 1
    /\ attempt' = 0
    /\ pc' = TryPc(dir)
    /\ UNCHANGED << form, win, out_dates, ret_dates, outbound, returns, pairs, kept,
                    pareto_indices, timeline, SEARCHES, sid, outcome, detail,
                    text, td, report >>

\* an attempt of search_retry that returns (lines 96-98), and the loop over
\* the flights it returned (lines 529-547, 568-586)
AttemptOk(dir) ==
    /\ pc = TryPc(dir)
    /\ \E flights \in Answers(dir, DatesOf(dir)[di]) :
          LET legs   == IF dir = "out" THEN outbound ELSE returns
              parsed == ParseFlights(flights, legs, WindowOf(dir), DepTz(dir), ArrTz(dir),
                                     dir = "out")
          IN  /\ log' = Append(log, Returned(dir, DatesOf(dir)[di], Len(flights)))
              /\ IF parsed.raised
                 THEN /\ Raise("error_exception")
                      /\ UNCHANGED << outbound, returns >>
                 ELSE /\ outbound' = IF dir = "out" THEN parsed.legs ELSE outbound
                      /\ returns' = IF dir = "out" THEN returns ELSE parsed.legs
                      /\ pc' = IF di < Len(DatesOf(dir)) THEN PacePc(dir) ELSE DonePc(dir)
                      /\ UNCHANGED outcome
    /\ UNCHANGED << form, win, out_dates, ret_dates, di, attempt, pairs, kept,
                    pareto_indices, timeline, SEARCHES, sid, detail,
                    text, td, report >>

\* AttemptRetry with a wait that grows by one: wait = i + 1
AttemptRetryLinear(dir) ==
    /\ pc = TryPc(dir)
    /\ attempt < Retries - 1
    /\ log' = log \o << Query(dir, DatesOf(dir)[di], "RuntimeError"), Sleep(attempt + 1) >>
    /\ attempt' = attempt + 1
    /\ UNCHANGED << pc, form, win, out_dates, ret_dates, di, outbound, returns, pairs,
                    kept, pareto_indices, timeline, SEARCHES, sid, outcome, detail,
                    text, td, report >>

\* an attempt that raises RuntimeError before the last one: sleep 2 ** i and
\* go round (lines 99-102)
AttemptRetry(dir) ==
    /\ pc = TryPc(dir)
    /\ attempt < Retries - 1
    /\ log' = log \o << Query(dir, DatesOf(dir)[di], "RuntimeError"), Sleep(2 ^ attempt) >>
    /\ attempt' = attempt + 1
    /\ UNCHANGED << pc, form, win, out_dates, ret_dates, di, outbound, returns, pairs,
                    kept, pareto_indices, timeline, SEARCHES, sid, outcome, detail,
                    text, td, report >>

\* AttemptExhausted with the date given up and the loop going on
AttemptExhaustedSkipsDate(dir) ==
    /\ pc = TryPc(dir)
    /\ attempt = Retries - 1
    /\ log' = Append(log, Query(dir, DatesOf(dir)[di], "RuntimeError"))
    /\ pc' = IF di < Len(DatesOf(dir)) THEN PacePc(dir) ELSE DonePc(dir)
    /\ UNCHANGED << form, win, out_dates, ret_dates, di, attempt, outbound, returns,
                    pairs, kept, pareto_indices, timeline, SEARCHES, sid, outcome, detail,
                    text, td, report >>

\* the last attempt raises RuntimeError: search_retry re-raises (lines 103-104)
AttemptExhausted(dir) ==
    /\ pc = TryPc(dir)
    /\ attempt = Retries - 1
    /\ log' = Append(log, Query(dir, DatesOf(dir)[di], "RuntimeError"))
    /\ Raise("error_retries_exhausted")
    /\ UNCHANGED << form, win, out_dates, ret_dates, di, attempt, outbound, returns,
                    pairs, kept, pareto_indices, timeline, SEARCHES, sid, detail,
                    text, td, report >>

\* an attempt raises something that is no RuntimeError: nothing catches it
\* before the except clause of generate
AttemptOtherError(dir) ==
    /\ pc = TryPc(dir)
    /\ log' = Append(log, Query(dir, DatesOf(dir)[di], "OtherError"))
    /\ Raise("error_exception")
    /\ UNCHANGED << form, win, out_dates, ret_dates, di, attempt, outbound, returns,
                    pairs, kept, pareto_indices, timeline, SEARCHES, sid, detail,
                    text, td, report >>

\* lines 548-558: dedup of the outbound legs, the pause before the return
\* queries, the return dates or the ValueError
OutDone ==
    /\ pc = "out_done"
    /\ outbound' = dedup(outbound)
    /\ log' = Append(log, Sleep(1))
    /\ ret_dates' = compute_search_dates(win.ret.after, win.ret.before)
    /\ IF ret_dates' = << >>
       THEN /\ Raise("error_no_return_dates")
            /\ UNCHANGED << di, attempt, returns >>
       ELSE /\ pc' = "ret_try"
            /\ di' = 1
            /\ attempt' = 0
            /\ returns' = << >>
            /\ UNCHANGED outcome
    /\ UNCHANGED << form, win, out_dates, pairs, kept, pareto_indices, timeline,
                    SEARCHES, sid, detail,
                    text, td, report >>

\* lines 587-589: dedup of the return legs
RetDone ==
    /\ pc = "ret_done"
    /\ returns' = dedup(returns)
    /\ pc' = "combine"
    /\ UNCHANGED << form, win, out_dates, ret_dates, di, attempt, outbound, pairs, kept,
                    pareto_indices, timeline, SEARCHES, sid, log, outcome, detail,
                    text, td, report >>

\* lines 591-616: combine the pairs and select the displayed subset
CombineSelect ==
    /\ pc = "combine"
    /\ pairs' = Combine(outbound, returns)
    /\ kept' = Select(pairs')
    /\ pc' = "selected"
    /\ UNCHANGED << form, win, out_dates, ret_dates, di, attempt, outbound, returns,
                    pareto_indices, timeline, SEARCHES, sid, log, outcome, detail,
                    text, td, report >>

\* NoResults ending in the except clause's state
NoResultsRaises ==
    /\ pc = "selected"
    /\ kept = << >>
    /\ Raise("error_exception")
    /\ report' = Some([outbound |-> Len(outbound), returns |-> Len(returns)])
    /\ UNCHANGED << form, win, out_dates, ret_dates, di, attempt, outbound, returns,
                    pairs, kept, pareto_indices, timeline, SEARCHES, sid, log, detail,
                    text, td >>

\* lines 618-628: nothing to show; the page states len(outbound) and
\* len(returns)
NoResults ==
    /\ pc = "selected"
    /\ kept = << >>
    /\ pc' = "done"
    /\ outcome' = "no_results"
    /\ report' = Some([outbound |-> Len(outbound), returns |-> Len(returns)])
    /\ UNCHANGED << form, win, out_dates, ret_dates, di, attempt, outbound, returns,
                    pairs, kept, pareto_indices, timeline, SEARCHES, sid, log, detail,
                    text, td >>

\* dep_date and ret_date of lines 493-494
DepDate(f) == IF ~IsNone(f.out_after_date) THEN f.out_after_date ELSE f.out_before_date

RetDate(f) == IF ~IsNone(f.ret_before_date) THEN f.ret_before_date ELSE f.ret_after_date

\* lines 630-672: store the search, compute the frontier and the timeline
StoreAndChart ==
    /\ pc = "selected"
    /\ kept # << >>
    /\ \E s \in SidValues :
          /\ sid' = Some(s)
          /\ SEARCHES' = (s :> [pairs |-> kept, dep_date |-> DepDate(form),
                                ret_date |-> RetDate(form)]) @@ SEARCHES
    /\ pareto_indices' = Pareto(kept)
    /\ IF ZeroDivisionError(pareto_indices', kept)
       THEN /\ timeline' = None
            /\ Raise("error_zero_division")
       ELSE /\ timeline' = build_html_timeline(pareto_indices', kept)
            /\ pc' = "render"
            /\ UNCHANGED outcome
    /\ UNCHANGED << form, win, out_dates, ret_dates, di, attempt, outbound, returns,
                    pairs, kept, log, detail,
                    text, td, report >>

\* lines 674-748: the page is written out
Render ==
    /\ pc = "render"
    /\ pc' = "done"
    /\ outcome' = "results"
    /\ UNCHANGED << form, win, out_dates, ret_dates, di, attempt, outbound, returns,
                    pairs, kept, pareto_indices, timeline, SEARCHES, sid, log, detail,
                    text, td, report >>

\* flight_detail(sid, idx) (lines 763-773); idx counts from 0.  The handler
\* only reads the cache and its answer depends on nothing an earlier request
\* left behind, so one request is taken per run, once the search has ended
\* and the cache holds all it will hold.
flight_detail(s, idx) ==
    /\ pc = "done"
    /\ IsNone(detail)
    /\ detail' = IF s \notin DOMAIN SEARCHES \/ idx >= Len(SEARCHES[s].pairs)
                 THEN Some([found |-> FALSE, sid |-> s, idx |-> idx])
                 ELSE Some([found |-> TRUE, sid |-> s, idx |-> idx,
                            p |-> SEARCHES[s].pairs[idx + 1]])
    /\ UNCHANGED << pc, form, win, out_dates, ret_dates, di, attempt, outbound, returns,
                    pairs, kept, pareto_indices, timeline, SEARCHES, sid, log, outcome,
                    text, td, report >>

-----------------------------------------------------------------------------
(* Initial states and specifications *)

\* the legs the loop of generate makes of a list of flights, none raising
LegsOf(flights, w, dep_tz, arr_tz, outward) ==
    ParseFlights(flights, << >>, w, dep_tz, arr_tz, outward).legs

\* what an earlier search left in the cache: the displayed subset of the
\* listed flights of 28 February out and 1 March back
PriorForm == MakeForm(Fields(Some(D(2, 28)), EmptyText, None, EmptyText),
                      Fields(Some(D(3, 1)), EmptyText, None, EmptyText), LA, NY)

PriorKept ==
    Select(Combine(dedup(LegsOf(Listed("out", D(2, 28)), Windows(PriorForm).out, LA, NY, TRUE)),
                   dedup(LegsOf(Listed("ret", D(3, 1)), Windows(PriorForm).ret, NY, LA, FALSE))))

PriorCaches ==
    { << >>,
      "s0" :> [pairs |-> PriorKept, dep_date |-> DepDate(PriorForm),
               ret_date |-> RetDate(PriorForm)] }

\* the server before a search: nothing running, the cache empty or holding an
\* earlier search
Init ==
    /\ pc = "idle"
    /\ form = None
    /\ win = None
    /\ out_dates = << >>
    /\ ret_dates = << >>
    /\ di = 0
    /\ attempt = 0
    /\ outbound = << >>
    /\ returns = << >>
    /\ pairs = << >>
    /\ kept = << >>
    /\ pareto_indices = << >>
    /\ timeline = None
    /\ SEARCHES \in PriorCaches
    /\ sid = None
    /\ log = << >>
    /\ outcome = "running"
    /\ detail = None
    /\ text = None
    /\ td = None
    /\ report = None

Dirs == {"out", "ret"}

Next ==
    \/ \E f \in Forms : Submit(f)
    \/ OutDates
    \/ \E dir \in Dirs : Pace(dir)
    \/ \E dir \in Dirs : AttemptOk(dir)
    \/ \E dir \in Dirs : AttemptRetry(dir)
    \/ \E dir \in Dirs : AttemptExhausted(dir)
    \/ \E dir \in Dirs : AttemptOtherError(dir)
    \/ OutDone
    \/ RetDone
    \/ CombineSelect
    \/ NoResults
    \/ StoreAndChart
    \/ Render
    \/ \E s \in {"s0", "s1"} : \E idx \in 0..2 : flight_detail(s, idx)

Spec == Init /\ [][Next]_vars

-----------------------------------------------------------------------------
(* A search whose queries have all been answered: the legs are drawn from a *)
(* wider catalogue and the steps from the last dedup on are taken           *)

\* outbound 28 February and 1 March, return 28 February to 2 March
FetchedForm == MakeForm(Fields(Some(D(2, 28)), EmptyText, None, EmptyText),
                        Fields(Some(D(2, 28)), EmptyText, Some(D(3, 2)), T24(22, 0)), LA, NY)

\* outbound flights: a nonstop one, a cheaper one with a stop, a nonstop one
\* of another airline at the same price landing two minutes later, one whose
\* departure text has no month, and the first one a day later
OutCatalogue ==
    { Flight("AA", On(T12(8, 0, "AM"), 2, 28), On(T12(4, 30, "PM"), 2, 28), 0, Price(200)),
      Flight("UA", On(T12(10, 0, "AM"), 2, 28), On(T12(9, 0, "PM"), 2, 28), 1, Price(150)),
      Flight("DL", On(T12(8, 0, "AM"), 2, 28), On(T12(4, 32, "PM"), 2, 28), 0, Price(200)),
      Flight("B6", On(T12(6, 0, "AM"), 0, 0), On(T12(2, 30, "PM"), 2, 28), 0, Price(90)),
      Flight("AA", On(T12(8, 0, "AM"), 3, 1), On(T12(4, 30, "PM"), 3, 1), 0, Price(200)) }

\* return flights: a nonstop one, the same flight a day later, one leaving
\* two minutes after the first outbound flight lands, one whose arrival text
\* has no month and whose price has no digits, one of another airline at the
\* price of the first
RetCatalogue ==
    { Flight("AA", On(T12(9, 0, "AM"), 3, 1), On(T12(12, 30, "PM"), 3, 1), 0, Price(300)),
      Flight("AA", On(T12(9, 0, "AM"), 3, 2), On(T12(12, 30, "PM"), 3, 2), 0, Price(300)),
      Flight("B6", On(T12(4, 32, "PM"), 2, 28), On(T12(8, 0, "PM"), 2, 28), 1, Price(120)),
      Flight("DL", On(T12(7, 0, "PM"), 3, 1), On(T12(10, 30, "PM"), 0, 0), 2, NoPrice),
      Flight("UA", On(T12(11, 0, "AM"), 3, 1), On(T12(2, 30, "PM"), 3, 1), 1, Price(300)) }

\* the i-th of n outbound flights of a long list: only the dearest is nonstop
BulkOutFlight(i, n) ==
    Flight("WN", On(T12(1 + (i % 11), i, "AM"), 2, 28), On(T12(1 + (i % 11), 30, "PM"), 2, 28),
           IF i = n THEN 0 ELSE 1 + (i % 2), Price(100 + 10 * i))

\* the j-th of n return flights of a long list: only the two dearest are nonstop
BulkRetFlight(j, n) ==
    Flight("WN", On(T12(1 + (j % 11), j, "AM"), 3, 1), On(T12(1 + (j % 11), 45, "PM"), 3, 1),
           IF j >= n - 1 THEN 0 ELSE 1, Price(200 + 7 * j))

\* two answers of one flight each way: an outbound flight that lands at the
\* instant it leaves (8:00 AM Pacific is 11:00 AM Eastern); an outbound flight
\* whose arrival text is a day before its departure, with a return flight
\* that takes a day
OddLists ==
    { << << Flight("NK", On(T12(8, 0, "AM"), 2, 28), On(T12(11, 0, "AM"), 2, 28), 0, Price(80)) >>,
         << Flight("AA", On(T12(9, 0, "AM"), 3, 1), On(T12(12, 30, "PM"), 3, 1), 0, Price(300)) >> >>,
      << << Flight("F9", On(T12(10, 0, "PM"), 2, 28), On(T12(1, 0, "AM"), 2, 28), 0, Price(80)) >>,
         << Flight("F9", On(T12(9, 0, "AM"), 3, 1), On(T12(6, 0, "AM"), 3, 2), 1, Price(110)) >> >> }

\* the flight lists fetched for the two directions
FetchedLists ==
    { << o, r >> : o \in SeqsUpTo(OutCatalogue, MaxLegs), r \in SeqsUpTo(RetCatalogue, MaxLegs) }
    \cup OddLists
    \cup { << [i \in 1..n |-> BulkOutFlight(i, n)], [j \in 1..m |-> BulkRetFlight(j, m)] >> :
              n \in (BulkOut - 1)..BulkOut, m \in (BulkRet - 1)..BulkRet }

\* the log of a search in which every first attempt succeeded, up to the
\* last return query: a pause between any two queries
RECURSIVE QueryLog(_, _)
QueryLog(dir, dates) ==
    IF dates = << >> THEN << >>
    ELSE << Query(dir, Head(dates), "returned") >>
         \o (IF Len(dates) > 1 THEN << Sleep(1) >> ELSE << >>)
         \o QueryLog(dir, Tail(dates))

InitFetched ==
    /\ pc = "ret_done"
    /\ form = FetchedForm
    /\ win = Windows(FetchedForm)
    /\ out_dates = compute_search_dates(win.out.after, win.out.before)
    /\ ret_dates = compute_search_dates(win.ret.after, win.ret.before)
    /\ di = Len(ret_dates)
    /\ attempt = 0
    /\ \E lists \in FetchedLists :
          /\ outbound = dedup(LegsOf(lists[1], win.out, LA, NY, TRUE))
          /\ returns = LegsOf(lists[2], win.ret, NY, LA, FALSE)
    /\ pairs = << >>
    /\ kept = << >>
    /\ pareto_indices = << >>
    /\ timeline = None
    /\ SEARCHES = << >>
    /\ sid = None
    /\ log = QueryLog("out", out_dates) \o << Sleep(1) >> \o QueryLog("ret", ret_dates)
    /\ outcome = "running"
    /\ detail = None
    /\ text = None
    /\ td = None
    /\ report = None

NextFetched ==
    \/ RetDone
    \/ CombineSelect
    \/ NoResults
    \/ StoreAndChart
    \/ Render

SpecFetched == InitFetched /\ [][NextFetched]_vars

-----------------------------------------------------------------------------
(* extract_td on its own: one departure or arrival text is given to it *)

\* the time texts tried: with a meridiem (hours 0 to 13), bare (hours 0 to
\* 24), one that is no time, and none
TimeTexts ==
    { T12(h, mi, ap) : h \in {0, 1, 11, 12, 13}, mi \in {0, 30, 59}, ap \in {"AM", "PM"} }
    \cup { T24(h, mi) : h \in {0, 9, 12, 13, 23, 24}, mi \in {0, 30, 59} }
    \cup { BadText, EmptyText }

\* the texts tried: each time followed by " on " and a date with a month, by
\* " on " and a description with no month, or by nothing
Texts ==
    { On(t, 2, 28) : t \in TimeTexts }
    \cup { On(t, 0, 0) : t \in TimeTexts }
    \cup { Bare(t) : t \in TimeTexts }

InitText ==
    /\ pc = "text"
    /\ form = None
    /\ win = None
    /\ out_dates = << >>
    /\ ret_dates = << >>
    /\ di = 0
    /\ attempt = 0
    /\ outbound = << >>
    /\ returns = << >>
    /\ pairs = << >>
    /\ kept = << >>
    /\ pareto_indices = << >>
    /\ timeline = None
    /\ SEARCHES = << >>
    /\ sid = None
    /\ log = << >>
    /\ outcome = "running"
    /\ detail = None
    /\ text \in { Some(s) : s \in Texts }
    /\ td = None
    /\ report = None

\* the call extract_td(f.departure) or extract_td(f.arrival) (lines 530, 535)
ExtractTd ==
    /\ pc = "text"
    /\ IsNone(td)
    /\ td' = Some(extract_td(Val(text)))
    /\ UNCHANGED << pc, form, win, out_dates, ret_dates, di, attempt, outbound, returns,
                    pairs, kept, pareto_indices, timeline, SEARCHES, sid, log, outcome,
                    detail, text, report >>

NextText == ExtractTd

SpecText == InitText /\ [][NextText]_vars

-----------------------------------------------------------------------------
(* Searches of one day out and one day back whose windows have times set  *)
(* on, just inside and just outside the listed flights' times; every      *)
(* query is answered at once                                              *)

\* outbound fields for 28 February: the listed flight leaves at 8:00 AM and
\* lands at 4:30 PM
WindowOutFields ==
    { Fields(Some(D(2, 28)), a, Some(D(2, 28)), b) :
          a \in {EmptyText, T24(8, 0), T24(8, 1)},
          b \in {EmptyText, T24(16, 30), T24(16, 29)} }

\* return fields for 1 March: the listed flight leaves at 9:00 AM and lands
\* at 12:30 PM
WindowRetFields ==
    { Fields(Some(D(3, 1)), a, Some(D(3, 1)), b) :
          a \in {T24(6, 0), T24(9, 0), T24(9, 1)},
          b \in {EmptyText, T24(12, 30), T24(12, 29)} }

WindowForms ==
    { MakeForm(o, OneDayRet, LA, NY) : o \in WindowOutFields }
    \cup { MakeForm(OneDayOut, r, LA, NY) : r \in WindowRetFields }

NextWindow ==
    \/ \E f \in WindowForms : Submit(f)
    \/ OutDates
    \/ \E dir \in Dirs : AttemptOk(dir)
    \/ OutDone
    \/ RetDone

SpecWindow == Init /\ [][NextWindow]_vars

-----------------------------------------------------------------------------
(* The claims *)

\* the absolute instant of an optional datetime that is set
Instant(o) == UtcMinutes(Val(o))

\* C1: every itinerary the combination step produces has its return leg
\* leaving at an instant strictly later than the instant its outbound leg
\* lands; no pair with return departure <= outbound arrival is constructed.
C1_ReturnAfterArrival ==
    \A k \in DOMAIN pairs :
        /\ ~IsNone(pairs[k].ret.dep_dt)
        /\ ~IsNone(pairs[k].out.arr_dt)
        /\ Instant(pairs[k].ret.dep_dt) > Instant(pairs[k].out.arr_dt)

\* C1 witness: the pairs were combined, some were made, and a return leg
\* leaving at the very instant an outbound leg lands was on the table
C1_Witness ==
    /\ pc = "selected"
    /\ pairs # << >>
    /\ \E i \in DOMAIN outbound, j \in DOMAIN returns :
          /\ ~IsNone(outbound[i].arr_dt)
          /\ ~IsNone(returns[j].dep_dt)
          /\ Instant(returns[j].dep_dt) = Instant(outbound[i].arr_dt)

\* C2: the displayed subset kept holds every combined itinerary whose
\* outbound and return legs are both nonstop, however many itineraries with
\* stops there are.
C2_NonstopKept ==
    \A k \in DOMAIN pairs :
        (pairs[k].out.stops = 0 /\ pairs[k].ret.stops = 0)
            => \E j \in DOMAIN kept : kept[j] = pairs[k]

\* C2 witness: more itineraries with stops than the cap shows, and a
\* both-nonstop itinerary priced beyond the first 50
C2_Witness ==
    /\ pc = "selected"
    /\ Cardinality({ k \in DOMAIN pairs :
                       ~(pairs[k].out.stops = 0 /\ pairs[k].ret.stops = 0) }) > 50
    /\ \E k \in DOMAIN pairs :
          k > 50 /\ pairs[k].out.stops = 0 /\ pairs[k].ret.stops = 0

\* C3: the frontier points, in ascending price order, have strictly
\* increasing dest-hours: of two frontier points the one not dearer has
\* strictly less dest-hours, and the list handed on lists them that way.
C3_FrontierStrict ==
    /\ \A a \in Range(pareto_indices), b \in Range(pareto_indices) :
          (a # b /\ kept[a].total <= kept[b].total) => kept[a].dest_hrs < kept[b].dest_hrs
    /\ \A m \in DOMAIN pareto_indices, n \in DOMAIN pareto_indices :
          m < n => /\ kept[pareto_indices[m]].total < kept[pareto_indices[n]].total
                   /\ kept[pareto_indices[m]].dest_hrs < kept[pareto_indices[n]].dest_hrs

\* C3 witness: a frontier of two points or more over a displayed subset in
\* which an itinerary is followed by one of the same price and more dest-hours
C3_Witness ==
    /\ Len(pareto_indices) >= 2
    /\ \E i \in DOMAIN kept, j \in DOMAIN kept :
          i < j /\ kept[i].total = kept[j].total /\ kept[i].dest_hrs < kept[j].dest_hrs

\* the frontier has been computed for the displayed subset
FrontierComputed == pc = "render" \/ (pc = "done" /\ outcome = "results")

\* C4 as stated: the frontier is exactly the set of displayed itineraries for
\* which no other displayed itinerary is cheaper with at least as much
\* dest-hours.
C4_FrontierIsUndominated ==
    FrontierComputed =>
        Range(pareto_indices) =
            { i \in DOMAIN kept :
                ~\E j \in DOMAIN kept \ {i} :
                    kept[j].total < kept[i].total /\ kept[j].dest_hrs >= kept[i].dest_hrs }

\* C4 amended: the frontier is exactly the set of displayed itineraries for
\* which no other displayed itinerary has at least as much dest-hours and is
\* cheaper, or is equally priced with more dest-hours, or is equally priced
\* with equal dest-hours and stands earlier in the displayed list.
C4_FrontierAmended ==
    FrontierComputed =>
        Range(pareto_indices) =
            { i \in DOMAIN kept :
                ~\E j \in DOMAIN kept \ {i} :
                    /\ kept[j].dest_hrs >= kept[i].dest_hrs
                    /\ \/ kept[j].total < kept[i].total
                       \/ (kept[j].total = kept[i].total /\ kept[j].dest_hrs > kept[i].dest_hrs)
                       \/ (kept[j].total = kept[i].total /\ kept[j].dest_hrs = kept[i].dest_hrs
                           /\ j < i) }

\* C4 witness: the frontier was computed over a displayed subset with two
\* itineraries of one price and one dest-hours value, the first on the frontier
C4_Witness ==
    /\ FrontierComputed
    /\ \E i \in DOMAIN kept, j \in DOMAIN kept :
          /\ i < j
          /\ kept[i].total = kept[j].total
          /\ kept[i].dest_hrs = kept[j].dest_hrs
          /\ i \in Range(pareto_indices)

\* the rendered rows: the frontier itineraries whose four datetimes are set
Rendered ==
    { i \in Range(pareto_indices) :
        /\ ~IsNone(kept[i].out.dep_dt) /\ ~IsNone(kept[i].out.arr_dt)
        /\ ~IsNone(kept[i].ret.dep_dt) /\ ~IsNone(kept[i].ret.arr_dt) }

\* the duration of a zone: latest arrival less earliest departure over the
\* rendered rows, as instants
OutZoneMinutes ==
    SetMax({ Instant(kept[i].out.arr_dt) : i \in Rendered })
        - SetMin({ Instant(kept[i].out.dep_dt) : i \in Rendered })

RetZoneMinutes ==
    SetMax({ Instant(kept[i].ret.arr_dt) : i \in Rendered })
        - SetMin({ Instant(kept[i].ret.dep_dt) : i \in Rendered })

\* three percentages 100 * num / den of one zone that add up to 100
SumTo100(a, b, c) ==
    /\ a.den # 0 /\ b.den = a.den /\ c.den = a.den
    /\ 100 * (a.num + b.num + c.num) = 100 * a.den

\* C5: in every rendered row, for the outbound and for the return zone, the
\* pre-gap, bar and post-gap percentages add up to 100% when the zone
\* duration is not zero.
C5_ProportionsSum ==
    ~IsNone(timeline) =>
        \A k \in DOMAIN Val(timeline).rows :
            LET row == Val(timeline).rows[k]
            IN  /\ OutZoneMinutes # 0 => SumTo100(row.o_pre, row.o_bar, row.o_post)
                /\ RetZoneMinutes # 0 => SumTo100(row.r_pre, row.r_bar, row.r_post)

\* C5 witness: a timeline of two rows or more, both zones of a duration that
\* is not zero, a row with gaps before its outbound and before its return bar
C5_Witness ==
    /\ ~IsNone(timeline)
    /\ Len(Val(timeline).rows) >= 2
    /\ OutZoneMinutes # 0
    /\ RetZoneMinutes # 0
    /\ \E k \in DOMAIN Val(timeline).rows :
          Val(timeline).rows[k].o_pre.num > 0 /\ Val(timeline).rows[k].r_pre.num > 0

\* the key the claim gives a leg record: airline, departure text (time and
\* date parts), the arrival text the record holds, price text
ClaimKey(f) ==
    << f.airline, f.dep_time, f.dep_date,
       IF "arr_str" \in DOMAIN f THEN Some(f.arr_str) ELSE Some(f.arr_time),
       f.price >>

\* the records of a sequence that are the first of their key
FirstOfKey(in) == { i \in DOMAIN in : \A j \in 1..(i - 1) : ClaimKey(in[j]) # ClaimKey(in[i]) }

\* out holds exactly the first record of every key of in, in the order of in
OnePerKey(in, out) ==
    LET firsts == FirstOfKey(in)
    IN  /\ Len(out) = Cardinality(firsts)
        /\ \A k \in DOMAIN out :
              out[k] = in[CHOOSE i \in firsts : Cardinality({ j \in firsts : j <= i }) = k]

\* C6 as stated: dedup returns the subsequence of its input that holds exactly
\* one record, the first, per distinct (airline, departure text, arrival
\* text, price text) key, in first-seen order.
C6_DedupOnePerKey == [][pc = "ret_done" => OnePerKey(returns, returns')]_vars

\* b is the calendar day after a
IsNextDay(a, b) ==
    \/ a.y = b.y /\ a.m = b.m /\ b.d = a.d + 1 /\ b.d <= DaysInMonth(a.m)
    \/ a.y = b.y /\ b.m = a.m + 1 /\ a.d = DaysInMonth(a.m) /\ b.d = 1
    \/ b.y = a.y + 1 /\ a.m = 12 /\ a.d = 31 /\ b.m = 1 /\ b.d = 1

\* the dates of a direction have been enumerated
DatesComputed(dir) ==
    IF dir = "out" THEN pc \notin {"idle", "out_dates"}
    ELSE \/ pc \in {"ret_try", "ret_pace", "ret_done", "combine", "selected", "render"}
         \/ outcome \in {"results", "no_results", "error_no_return_dates"}
         \/ \E k \in DOMAIN log : log[k].op = "query" /\ log[k].dir = "ret"

\* what C7 says of one direction, given its two date fields, its window and
\* its enumerated dates
OneBoundRule(after_date, before_date, w, dates, computed) ==
    /\ (~IsNone(after_date) /\ IsNone(before_date)) =>
          /\ Val(w.after).date = Val(after_date)
          /\ IsNextDay(Val(after_date), Val(w.before).date)
          /\ Val(w.before).hh = 23 /\ Val(w.before).mm = 59
          /\ computed => dates = << Val(after_date), Val(w.before).date >>
    /\ (IsNone(after_date) /\ ~IsNone(before_date)) =>
          /\ Val(w.before).date = Val(before_date)
          /\ IsNextDay(Val(w.after).date, Val(before_date))
          /\ Val(w.after).hh = 0 /\ Val(w.after).mm = 0
          /\ computed => dates = << Val(w.after).date, Val(before_date) >>

\* C7: with exactly one bound of a direction supplied, the other is set one
\* calendar day away (before = the day after at 23:59, after = the day before
\* at 00:00) and compute_search_dates returns exactly the two consecutive
\* dates of the supplied and the synthesized bound, in ascending order.
C7_OneBoundTwoDates ==
    pc # "idle" =>
        /\ OneBoundRule(form.out_after_date, form.out_before_date, win.out, out_dates,
                        DatesComputed("out"))
        /\ OneBoundRule(form.ret_after_date, form.ret_before_date, win.ret, ret_dates,
                        DatesComputed("ret"))

\* C7 witness: only "after" given outbound, only "before" given for the
\* return, both date lists enumerated, the outbound one across a month's end
C7_Witness ==
    /\ pc = "ret_try"
    /\ ~IsNone(form.out_after_date) /\ IsNone(form.out_before_date)
    /\ IsNone(form.ret_after_date) /\ ~IsNone(form.ret_before_date)
    /\ Len(out_dates) = 2 /\ Len(ret_dates) = 2
    /\ out_dates[1].m # out_dates[2].m

\* a direction's resolved window yields no date
WindowEmpty(w) ==
    \/ IsNone(w.after)
    \/ IsNone(w.before)
    \/ ~DateLeq(Val(w.after).date, Val(w.before).date)

Queried == \E k \in DOMAIN log : log[k].op = "query"

\* C8 as stated: if the resolved window of either direction is empty, the
\* search ends in a validation failure and no flight query has been issued
\* at any point before it.
C8_NoQueryOnEmptyWindow ==
    (pc # "idle" /\ (WindowEmpty(win.out) \/ WindowEmpty(win.ret))) =>
        /\ ~Queried
        /\ pc = "done" => outcome \in {"error_no_outbound_dates", "error_no_return_dates"}

IsFailedQuery(k) == log[k].op = "query" /\ log[k].result = "RuntimeError"

\* the number of attempts of one call of search_retry that have failed in a
\* row up to the failed query log[k]
RECURSIVE Streak(_)
Streak(k) ==
    IF k >= 3 /\ IsFailedQuery(k - 2) /\ log[k - 1].op = "sleep"
       /\ log[k - 2].dir = log[k].dir /\ log[k - 2].date = log[k].date
    THEN 1 + Streak(k - 2)
    ELSE 1

\* C9: search_retry ends after at most 4 attempts: it returns the result of
\* the first attempt that succeeds (the date is not queried again), waits 1,
\* 2, then 4 units after the first, second and third failed attempt before
\* trying the same query again, and after the fourth failed attempt raises
\* without waiting.
C9_RetryBounded ==
    /\ attempt \in 0..3
    /\ \A k \in DOMAIN log :
          /\ IsFailedQuery(k) =>
                LET n == Streak(k)
                IN  /\ n <= 4
                    /\ n < 4 =>
                          /\ k < Len(log)
                          /\ log[k + 1] = Sleep(2 ^ (n - 1))
                          /\ k + 1 < Len(log) =>
                                /\ log[k + 2].op = "query"
                                /\ log[k + 2].dir = log[k].dir
                                /\ log[k + 2].date = log[k].date
                          /\ k + 1 = Len(log) => pc \in {"out_try", "ret_try"}
                    /\ n = 4 => (k = Len(log) /\ pc = "done")
          /\ (log[k].op = "query" /\ log[k].result = "returned") =>
                \A l \in (k + 1)..Len(log) :
                    ~(log[l].op = "query" /\ log[l].dir = log[k].dir
                      /\ log[l].date = log[k].date)

\* C9 witness: a query answered at its fourth attempt, after waits of 1, 2
\* and 4
C9_Witness ==
    \E k \in DOMAIN log :
        /\ k >= 7
        /\ log[k].op = "query" /\ log[k].result = "returned"
        /\ log[k - 1] = Sleep(4) /\ log[k - 3] = Sleep(2) /\ log[k - 5] = Sleep(1)
        /\ IsFailedQuery(k - 2) /\ IsFailedQuery(k - 4) /\ IsFailedQuery(k - 6)

\* C10: once the query for a date has failed on its last attempt, the search
\* is over in the error state: nothing is queried after it, no itinerary is
\* combined from the dates fetched before, nothing is stored in the cache.
C10_ExhaustionAborts ==
    \A k \in DOMAIN log :
        (k >= 7 /\ IsFailedQuery(k) /\ Streak(k) = 4) =>
            /\ k = Len(log)
            /\ pc = "done"
            /\ outcome = "error_retries_exhausted"
            /\ pairs = << >>
            /\ kept = << >>
            /\ IsNone(sid)
            /\ SEARCHES \in PriorCaches

\* C10 witness: the first of two return dates ran out of retries after the
\* outbound dates had brought legs in, with an earlier search in the cache
C10_Witness ==
    /\ outcome = "error_retries_exhausted"
    /\ log[Len(log)].dir = "ret"
    /\ di = 1
    /\ Len(ret_dates) = 2
    /\ outbound # << >>
    /\ SEARCHES # << >>

\* C11 as stated: the outbound and the return leg of every itinerary the
\* combination step produces each have a departure instant and an arrival
\* instant; a leg with a null departure or arrival instant is in no itinerary.
C11_NoNullInstants ==
    \A k \in DOMAIN pairs :
        /\ ~IsNone(pairs[k].out.dep_dt) /\ ~IsNone(pairs[k].out.arr_dt)
        /\ ~IsNone(pairs[k].ret.dep_dt) /\ ~IsNone(pairs[k].ret.arr_dt)

\* a time in 12-hour form with a meridiem
TwelveHourForm(t) == t.kind = "ampm" /\ t.h \in 1..12 /\ t.mi \in 0..59

\* a time in bare 24-hour form
TwentyFourHourForm(t) == t.kind = "h24" /\ t.h \in 0..23 /\ t.mi \in 0..59

\* a text of the shape "<time> on <date-description>" with a time of either form
RecognizedShape(s) == s.on /\ (TwelveHourForm(s.t) \/ TwentyFourHourForm(s.t))

\* C12 as stated: for a text "<time> on <date-description>" whose time is in
\* 12-hour form with a meridiem or in bare 24-hour form, extract_td returns a
\* raw time, a raw date, an hour in 0..23 and a minute, none of them null;
\* for a text of neither shape it returns all four null.
C12_ExtractBothShapes ==
    ~IsNone(td) =>
        LET r == Val(td)
        IN  IF RecognizedShape(Val(text))
            THEN /\ ~IsNone(r.ts) /\ ~IsNone(r.ds) /\ ~IsNone(r.h) /\ ~IsNone(r.mi)
                 /\ Val(r.h) \in 0..23
            ELSE IsNone(r.ts) /\ IsNone(r.ds) /\ IsNone(r.h) /\ IsNone(r.mi)

\* the position of leg x in the list legs
PosIn(legs, x) == CHOOSE i \in DOMAIN legs : legs[i] = x

\* itinerary p was appended before itinerary q: its outbound leg comes first,
\* or they share the outbound leg and its return leg comes first
InsertedBefore(p, q) ==
    \/ PosIn(outbound, p.out) < PosIn(outbound, q.out)
    \/ /\ p.out = q.out
       /\ PosIn(returns, p.ret) < PosIn(returns, q.ret)

\* C13: the list the combination step produces is in ascending order of total
\* price, and itineraries of equal total price are in the order they were
\* appended in: by outbound leg, then by return leg under one outbound leg.
C13_PriceOrderStable ==
    \A i, j \in DOMAIN pairs :
        i < j =>
            /\ pairs[i].total <= pairs[j].total
            /\ pairs[i].total = pairs[j].total => InsertedBefore(pairs[i], pairs[j])

\* C13 witness: a combined list in which a dearer itinerary was appended
\* before a cheaper one and two itineraries of one outbound leg have the same
\* price
C13_Witness ==
    /\ pc = "selected"
    /\ \E i, j \in DOMAIN pairs :
          /\ pairs[i].total < pairs[j].total
          /\ InsertedBefore(pairs[j], pairs[i])
    /\ \E i, j \in DOMAIN pairs :
          /\ i < j /\ pairs[i].total = pairs[j].total
          /\ pairs[i].out = pairs[j].out

\* a state with two itineraries of equal price and different outbound legs
C13_TieAcrossOutbound ==
    \E i, j \in DOMAIN pairs :
        /\ i < j /\ pairs[i].total = pairs[j].total
        /\ pairs[i].out # pairs[j].out

\* C14: a search whose queries were all answered and whose combination gives
\* no itinerary ends in the no-results state, not the error state: the page
\* states the numbers of outbound and return legs, nothing is raised, nothing
\* is put in the cache, and the state stays as it is.
C14_NoResultsState ==
    /\ [](outcome = "no_results" =>
             /\ pc = "done"
             /\ pairs = << >>
             /\ report = Some([outbound |-> Len(outbound), returns |-> Len(returns)])
             /\ IsNone(sid)
             /\ SEARCHES \in PriorCaches
             /\ out_dates # << >> /\ ret_dates # << >>
             /\ \A k \in DOMAIN out_dates :
                   \E l \in DOMAIN log :
                       /\ log[l].op = "query" /\ log[l].result = "returned"
                       /\ log[l].dir = "out" /\ log[l].date = out_dates[k]
             /\ \A k \in DOMAIN ret_dates :
                   \E l \in DOMAIN log :
                       /\ log[l].op = "query" /\ log[l].result = "returned"
                       /\ log[l].dir = "ret" /\ log[l].date = ret_dates[k])
    /\ [][(pc = "selected" /\ pairs = << >>) =>
             (pc' = "done" /\ outcome' = "no_results" /\ SEARCHES' = SEARCHES)]_vars
    /\ [][outcome = "no_results" =>
             (outcome' = outcome /\ SEARCHES' = SEARCHES /\ report' = report)]_vars

\* C14 witness: legs found in both directions, none of the returns leaving
\* after an outbound lands, an earlier search still in the cache, and a detail
\* request answered after the end
C14_Witness ==
    /\ outcome = "no_results"
    /\ outbound # << >>
    /\ returns # << >>
    /\ SEARCHES # << >>
    /\ ~IsNone(detail)

\* C15 as stated: the itinerary list stored under an identifier is never
\* removed or changed by a later search or detail request; flight_detail(sid,
\* i) returns the itinerary at position i of the list shown for that search;
\* an unknown identifier or an index past the list gives 'not found'; a
\* detail request leaves the cache as it is.
C15_CacheStable ==
    /\ [][\A s \in DOMAIN SEARCHES :
             s \in DOMAIN SEARCHES' /\ SEARCHES'[s].pairs = SEARCHES[s].pairs]_vars
    /\ [][detail' # detail => SEARCHES' = SEARCHES]_vars
    /\ []((~IsNone(sid) /\ pc \in {"render", "done"}) => SEARCHES[Val(sid)].pairs = kept)
    /\ [](~IsNone(detail) =>
             LET r == Val(detail)
             IN  IF r.sid \in DOMAIN SEARCHES /\ r.idx < Len(SEARCHES[r.sid].pairs)
                 THEN r.found /\ r.p = SEARCHES[r.sid].pairs[r.idx + 1]
                 ELSE ~r.found)

\* the itineraries of pairs with a stop on either leg, in the order of pairs
PairsWithStops == SelectSeq(pairs, LAMBDA p : p.out.stops # 0 \/ p.ret.stops # 0)

\* the itineraries of pairs with no stop on either leg
PairsNonstop == SelectSeq(pairs, LAMBDA p : p.out.stops = 0 /\ p.ret.stops = 0)

CapOf(n) == IF n < 50 THEN n ELSE 50

\* C16: kept holds exactly the first min(50, n) of the n itineraries with
\* stops and every both-nonstop itinerary, each once, so it has min(50, n) +
\* (number of both-nonstop) elements, and it is in ascending order of total
\* price.
C16_KeptExactly ==
    pc \in {"selected", "render", "done"} =>
        LET n == Len(PairsWithStops)
        IN  /\ { kept[k] : k \in DOMAIN kept }
                 = { PairsWithStops[k] : k \in 1..CapOf(n) }
                   \cup { PairsNonstop[k] : k \in DOMAIN PairsNonstop }
            /\ Len(kept) = CapOf(n) + Len(PairsNonstop)
            /\ \A i, j \in DOMAIN kept : i < j => kept[i].id # kept[j].id
            /\ \A i, j \in DOMAIN kept : i < j => kept[i].total <= kept[j].total

\* C16 witness: more than 50 itineraries with stops, of which one is left
\* out although a kept both-nonstop itinerary is dearer
C16_Witness ==
    /\ pc = "selected"
    /\ Len(PairsWithStops) > 50
    /\ \E k \in DOMAIN pairs, j \in DOMAIN kept :
          /\ \A i \in DOMAIN kept : kept[i].id # pairs[k].id
          /\ kept[j].out.stops = 0 /\ kept[j].ret.stops = 0
          /\ kept[j].total > pairs[k].total

\* the queries of the log, in order
Queries == SelectSeq(log, LAMBDA e : e.op = "query")

\* no query of the running search has failed
NoQueryFailed == \A k \in DOMAIN log : log[k].op = "query" => log[k].result = "returned"

\* date a is an earlier day than date b
EarlierDay(a, b) ==
    \/ a.y < b.y
    \/ a.y = b.y /\ a.m < b.m
    \/ a.y = b.y /\ a.m = b.m /\ a.d < b.d

\* the combination step has begun
CombinationBegun ==
    \/ pc \in {"combine", "selected", "render"}
    \/ outcome \in {"results", "no_results"}
    \/ pairs # << >>

\* C17: in a search where every query succeeds, the queries are those of the
\* outbound dates, then those of the return dates, each date once and in
\* ascending order, one after another; a pause lies between any two
\* consecutive queries, the last outbound and the first return query
\* included; the combination begins only after the last return query.
C17_QueryOrderPaced ==
    NoQueryFailed =>
        LET n == Len(out_dates)
            m == Len(ret_dates)
        IN  /\ Len(Queries) <= n + m
            /\ \A k \in DOMAIN Queries :
                  /\ k <= n => (Queries[k].dir = "out" /\ Queries[k].date = out_dates[k])
                  /\ k > n => (Queries[k].dir = "ret" /\ Queries[k].date = ret_dates[k - n])
            /\ \A i, j \in DOMAIN out_dates : i < j => EarlierDay(out_dates[i], out_dates[j])
            /\ \A i, j \in DOMAIN ret_dates : i < j => EarlierDay(ret_dates[i], ret_dates[j])
            /\ \A k \in DOMAIN log :
                  (log[k].op = "query" /\ k < Len(log)) =>
                      /\ log[k + 1] = Sleep(1)
                      /\ k + 1 < Len(log) => log[k + 2].op = "query"
            /\ CombinationBegun => (m > 0 /\ Len(Queries) = n + m)

\* C17 witness: two outbound and two return dates all answered at the first
\* attempt, the combination about to begin
C17_Witness ==
    /\ pc = "combine"
    /\ NoQueryFailed
    /\ Len(out_dates) = 2
    /\ Len(ret_dates) = 2
    /\ Len(Queries) = 4
    /\ Len(log) = 7

\* leg lies inside window w, bounds included, on the absolute instants of
\* those of its two datetimes that are set
InsideWindow(leg, w) ==
    /\ (~IsNone(leg.dep_dt) /\ ~IsNone(w.after)) => Instant(leg.dep_dt) >= Instant(w.after)
    /\ (~IsNone(leg.arr_dt) /\ ~IsNone(w.before)) => Instant(leg.arr_dt) <= Instant(w.before)

\* the legs of the flights listed for a date, none left out for its times
ListedLegs(dir, date, n) ==
    LegsOf(SubSeq(Listed(dir, date), 1, n), [after |-> None, before |-> None],
           DepTz(dir), ArrTz(dir), dir = "out")

\* C18: every leg that reaches the combination step lies inside the window
\* of its direction, bounds included: it leaves at or after the 'after'
\* instant and lands at or before the 'before' instant, as absolute
\* instants; of the flights a query returns, exactly those inside the window
\* are kept, one on a bound among them.
C18_WindowInclusive ==
    /\ [](pc # "idle" =>
             /\ \A k \in DOMAIN outbound : InsideWindow(outbound[k], win.out)
             /\ \A k \in DOMAIN returns : InsideWindow(returns[k], win.ret))
    /\ [][(Len(log') = Len(log) + 1 /\ log'[Len(log')].op = "query"
           /\ log'[Len(log')].result = "returned" /\ pc' # "done") =>
             LET q == log'[Len(log')]
                 inside == SelectSeq(ListedLegs(q.dir, q.date, q.found),
                                     LAMBDA leg : InsideWindow(leg, WindowOf(q.dir)))
             IN  IF q.dir = "out"
                 THEN outbound' = outbound \o inside
                 ELSE returns' = returns \o inside]_vars

\* C18 witness: the searches reach the combination step with an outbound leg
\* that leaves at the very 'after' instant and lands at the very 'before'
\* instant of a window anchored in two zones
C18_Witness ==
    /\ pc = "combine"
    /\ \E k \in DOMAIN outbound :
          /\ Instant(outbound[k].dep_dt) = Instant(win.out.after)
          /\ Instant(outbound[k].arr_dt) = Instant(win.out.before)
          /\ Val(win.out.after).tz # Val(win.out.before).tz

\* a search that reaches the combination step after a listed return flight
\* was dropped for landing a minute past the 'before' instant
C18_DroppedOutside ==
    /\ pc = "combine"
    /\ returns = << >>
    /\ Len(log) = 3
    /\ log[3].found = 1
    /\ form.ret_before_time = T24(12, 29)

-----------------------------------------------------------------------------
(* C19: the timeline never divides by zero *)

\* a zone of nominal duration 1 whose rows' three proportions are all 0%
ZeroZone(span, pre, bar, post) ==
    /\ span = 1
    /\ pre = Percent(0, 1) /\ bar = Percent(0, 1) /\ post = Percent(0, 1)

\* C19: for every non-empty rendered subset build_html_timeline never divides
\* by zero: a zone of duration zero is given the nominal duration 1, the
\* three proportions of every row in that zone are then 0%, and the two zone
\* widths are defined and sum to 100%.
C19_NoDivisionByZero ==
    /\ outcome # "error_zero_division"
    /\ ~IsNone(timeline) =>
          LET t == Val(timeline)
          IN  /\ OutZoneMinutes = 0 =>
                    \A k \in DOMAIN t.rows :
                        ZeroZone(t.out_span, t.rows[k].o_pre, t.rows[k].o_bar, t.rows[k].o_post)
              /\ RetZoneMinutes = 0 =>
                    \A k \in DOMAIN t.rows :
                        ZeroZone(t.ret_span, t.rows[k].r_pre, t.rows[k].r_bar, t.rows[k].r_post)
              /\ t.out_flex.den # 0
              /\ t.ret_flex.den = t.out_flex.den
              /\ 100 * (t.out_flex.num + t.ret_flex.num) = 100 * t.out_flex.den

\* a timeline was drawn with a zone of duration zero
C19_ZeroZoneDrawn ==
    /\ ~IsNone(timeline)
    /\ OutZoneMinutes = 0

\* the search ended in the except clause after the entry was stored: the
\* frontier's rows have an outbound zone of minus one day and a return zone
\* of one day
C19_SpansCancel ==
    /\ outcome = "error_zero_division"
    /\ ~IsNone(sid)
    /\ OutZoneMinutes = 0 - RetZoneMinutes
    /\ OutZoneMinutes # 0

-----------------------------------------------------------------------------
(* C20: the stored dest_hrs of a combined itinerary *)

\* the stay of itinerary p at the destination, in minutes
StayMinutes(p) == DestMinutes(p.out, p.ret)

\* C20 as stated: for every itinerary produced by the combination step the
\* stored dest_hrs value (hours at the destination rounded to one decimal) is
\* strictly positive.
C20_StoredPositive ==
    \A k \in DOMAIN pairs : pairs[k].dest_hrs > 0

\* C20 amended: for every itinerary produced by the combination step the
\* stay is strictly positive, and the stored dest_hrs value is the stay
\* rounded to one decimal (within 0.05 h of it, 3 minutes), so it is never
\* negative and is 0.0 only for a stay of less than three minutes.
C20_StoredNonNegative ==
    \A k \in DOMAIN pairs :
        /\ StayMinutes(pairs[k]) > 0
        /\ pairs[k].dest_hrs >= 0
        /\ StayMinutes(pairs[k]) - 6 * pairs[k].dest_hrs \in (0 - 3)..3
        /\ pairs[k].dest_hrs = 0 => StayMinutes(pairs[k]) < 3

\* C20 witness: the combination step produced an itinerary with a stay of a
\* minute or two stored as 0.0, and one whose stay is rounded up
C20_Witness ==
    /\ \E k \in DOMAIN pairs :
          StayMinutes(pairs[k]) > 0 /\ pairs[k].dest_hrs = 0
    /\ \E k \in DOMAIN pairs :
          6 * pairs[k].dest_hrs > StayMinutes(pairs[k])
====
